---- MODULE Spec2Model ----
(***************************************************************************)
(* Model of scripts/update_cdn.py: the bot that looks up the latest        *)
(* plotly.js tag, compares the CDN URL built from it with the embedded     *)
(* constant DEFAULT_PLOTLY and then either opens a pull request (URL       *)
(* reachable) or files an issue (URL unreachable).                         *)
(*                                                                         *)
(* Strings are sequences of string tokens, so that f-string formatting is  *)
(* concatenation, "x in msg" is membership of a token and str.replace is   *)
(* a replacement inside a sequence.  Each invocation of the script is a    *)
(* run; the runs share the tracker (remote branches, pull requests,        *)
(* issues) and each has its own checkout.  One action is one awaited       *)
(* command together with the synchronous code that follows it.             *)
(***************************************************************************)
EXTENDS Integers, Sequences, FiniteSets, TLC

\* ------------------------------------------------------------------ bounds
MaxTags == 2
MaxNum == 10
MaxInitIssues == 2
MaxVerTags == 3

\* two invocations of the script, enough for them to overlap
Runs == {1, 2}

\* ----------------------------------------------------------------- strings
REPO == "owner/repo"

Contains(msg, tok) == \E i \in 1..Len(msg) : msg[i] = tok

IsNum(t) == \E n \in 0..MaxNum : ToString(n) = t
ParseInt(t) == CHOOSE n \in 0..MaxNum : ToString(n) = t

\* jq: ltrimstr("v")
ltrimstr(s) == IF Len(s) > 0 /\ s[1] = "v" THEN Tail(s) ELSE s

\* semver.VersionInfo.parse: MAJOR.MINOR.PATCH[-PRERELEASE]
CanParse(s) ==
    /\ Len(s) \in {5, 7}
    /\ IsNum(s[1]) /\ s[2] = "." /\ IsNum(s[3]) /\ s[4] = "." /\ IsNum(s[5])
    /\ Len(s) = 7 => (s[6] = "-" /\ s[7] \in {"rc1", "rc2"})

parse(s) ==
    [major |-> ParseInt(s[1]), minor |-> ParseInt(s[3]), patch |-> ParseInt(s[5]),
     prerelease |-> IF Len(s) = 7 THEN s[7] ELSE ""]

\* str(VersionInfo)
str(v) ==
    <<ToString(v.major), ".", ToString(v.minor), ".", ToString(v.patch)>>
        \o (IF v.prerelease = "" THEN <<>> ELSE <<"-", v.prerelease>>)

PreRank(p) == IF p = "" THEN 3 ELSE IF p = "rc2" THEN 2 ELSE 1

\* decimal strings in dictionary order: "10" sorts before "2"
LexKey(n) == IF n < 10 THEN 100 * n ELSE 100 * (n \div 10) + (n % 10) + 1

\* mutant of Less: the version strings are compared as text
Less_lex(a, b) ==
    \/ LexKey(a.major) < LexKey(b.major)
    \/ a.major = b.major /\ LexKey(a.minor) < LexKey(b.minor)
    \/ a.major = b.major /\ a.minor = b.minor /\ LexKey(a.patch) < LexKey(b.patch)
    \/ /\ a.major = b.major /\ a.minor = b.minor /\ a.patch = b.patch
       /\ PreRank(a.prerelease) < PreRank(b.prerelease)

\* VersionInfo.__lt__: semantic-version precedence
Less(a, b) ==
    \/ a.major < b.major
    \/ a.major = b.major /\ a.minor < b.minor
    \/ a.major = b.major /\ a.minor = b.minor /\ a.patch < b.patch
    \/ /\ a.major = b.major /\ a.minor = b.minor /\ a.patch = b.patch
       /\ PreRank(a.prerelease) < PreRank(b.prerelease)

\* Python's max(): the first element that no later element exceeds
RECURSIVE MaxFrom(_, _, _)
MaxFrom(vs, i, best) ==
    IF i > Len(vs) THEN best
    ELSE MaxFrom(vs, i + 1, IF Less(best, vs[i]) THEN vs[i] ELSE best)

max(vs) == MaxFrom(vs, 2, vs[1])

\* get_latest_version: strip the prefix, parse every tag, str(max(versions))
latest_of(tags) == str(max([i \in 1..Len(tags) |-> parse(ltrimstr(tags[i]))]))

\* ------------------------------------------------------ names and templates
\* py/kaleido/_page_generator.py: the embedded constant
DEFAULT_PLOTLY == <<"https://cdn.plot.ly/plotly-", "1", ".", "9", ".", "9", ".js">>

\* text of py/kaleido/_page_generator.py, as chunks; the constant occurs twice
FILE_TEXT == <<<<"DEFAULT_PLOTLY = ">>, DEFAULT_PLOTLY, <<"# was ">>, DEFAULT_PLOTLY>>

NewCdn(latest_version) == <<"https://cdn.plot.ly/plotly-">> \o latest_version \o <<".js">>
Branch(latest_version) == <<"bot/update-cdn-">> \o latest_version
PrTitle(latest_version) == <<"Update Plotly.js CDN to v">> \o latest_version
PrBody(latest_version) == <<"This PR updates the CDN URL to v">> \o latest_version \o <<".">>
IssueTitle(latest_version) == <<"CDN not reachable for Plotly.js v">> \o latest_version
\* mutant of IssueBody: the body names the embedded URL
IssueBody_old(new_cdn) == <<"URL: ">> \o DEFAULT_PLOTLY \o <<" - invalid url">>

IssueBody(new_cdn) == <<"URL: ">> \o new_cdn \o <<" - invalid url">>

\* mutant of replace: the count is ignored, every occurrence is replaced
RECURSIVE replace_all(_, _, _, _)
replace_all(s, old, new, count) ==
    IF s = <<>> THEN <<>>
    ELSE <<IF Head(s) = old THEN new ELSE Head(s)>> \o replace_all(Tail(s), old, new, count)

\* mutant of replace: the text is written back as it was read
replace_skip(s, old, new, count) == s

\* str.replace(old, new, 1) on the chunks of a text
RECURSIVE replace(_, _, _, _)
replace(s, old, new, count) ==
    IF s = <<>> THEN <<>>
    ELSE IF count > 0 /\ Head(s) = old
         THEN <<new>> \o replace(Tail(s), old, new, count - 1)
         ELSE <<Head(s)>> \o replace(Tail(s), old, new, count)

\* ------------------------------------------------------------ environment
\* tag names the upstream repository may list
TagNames ==
    { <<"v", "1", ".", "2", ".", "0">>,
      <<"1", ".", "9", ".", "9">>,
      <<"v", "1", ".", "10", ".", "0">>,
      <<"latest">> }

RECURSIVE SeqsUpTo(_, _)
SeqsUpTo(S, n) ==
    IF n = 0 THEN {<<>>}
    ELSE LET shorter == SeqsUpTo(S, n - 1)
         IN  shorter \cup {Append(s, x) : s \in {t \in shorter : Len(t) = n - 1}, x \in S}

TagLists == SeqsUpTo(TagNames, MaxTags)

\* (stderr, returncode) of a finished command
Results ==
    { [rc |-> 0, err |-> <<>>],
      [rc |-> 0, err |-> <<"warning">>],
      [rc |-> 1, err |-> <<"error">>],
      [rc |-> 1, err |-> <<>>] }

NotFound == [rc |-> 1, err |-> <<"gh:", "Not Found", "(", "HTTP 404", ")">>]

Statuses == {200, 301, 404}

NewVersions == { <<"1", ".", "2", ".", "0">>, <<"1", ".", "10", ".", "0">> }

IssueStates == {"OPEN", "CLOSED"}

OpenCount(iss, title) ==
    Cardinality({i \in 1..Len(iss) : iss[i].title = title /\ iss[i].state = "OPEN"})

InitIssues ==
    { s \in SeqsUpTo([title : {IssueTitle(v) : v \in NewVersions}, state : IssueStates],
                     MaxInitIssues) :
        \A v \in NewVersions : OpenCount(s, IssueTitle(v)) <= 1 }

\* ------------------------------------------------------------------ state
VARIABLES
    pc,              \* per run: the step it is about to execute
    exit_code,       \* per run: process exit code once pc = "done"
    outcome,         \* per run: why it ended
    latest_version,  \* per run: result of get_latest_version
    file,            \* per run: text of the source file in its checkout
    file_writes,     \* per run: number of write_text calls
    changelog,       \* per run: TRUE once changelog.update rewrote the changelog
    git,             \* per run: local repository state
    calls,           \* per run: the commands it has run, in order
    failed,          \* per run: some command ended nonzero or wrote to stderr unexpectedly
    seen,            \* per run: what its requests and queries found and answered
    created,         \* per run: TRUE once its gh issue create call filed an issue
    branches,        \* tracker: remote branches
    prs,             \* tracker: pull requests
    issues,          \* tracker: issues
    tag_list,        \* resolver on its own: the tag names handed to it
    resolved         \* resolver on its own: the version string it returned

vars == <<pc, exit_code, outcome, latest_version, file, file_writes, changelog, git,
          calls, failed, seen, created, branches, prs, issues, tag_list, resolved>>

local == <<file, file_writes, changelog, git>>
tracker == <<branches, prs, issues>>
resolver == <<tag_list, resolved>>

NoGit == [branch |-> FALSE, committed |-> FALSE, pushed |-> FALSE]
NoRes == [rc |-> -1, err |-> <<>>]
NoSeen == [status |-> 0, branch |-> "?", lookup |-> NoRes, pr |-> "?", listed |-> <<"?">>,
           update |-> "?", issue |-> <<"?">>]

Runs0 ==
    /\ pc = [r \in Runs |-> "start"]
    /\ exit_code = [r \in Runs |-> -1]
    /\ outcome = [r \in Runs |-> ""]
    /\ latest_version = [r \in Runs |-> <<>>]
    /\ file = [r \in Runs |-> FILE_TEXT]
    /\ file_writes = [r \in Runs |-> 0]
    /\ changelog = [r \in Runs |-> FALSE]
    /\ git = [r \in Runs |-> NoGit]
    /\ calls = [r \in Runs |-> <<>>]
    /\ failed = [r \in Runs |-> FALSE]
    /\ seen = [r \in Runs |-> NoSeen]
    /\ created = [r \in Runs |-> FALSE]

Init ==
    /\ Runs0
    /\ branches = {}
    /\ prs = <<>>
    /\ issues \in InitIssues
    /\ tag_list = <<>>
    /\ resolved = <<>>

\* ---------------------------------------------------------------- helpers
\* mutant of Stop: a failing step does not end the run, it is tried again
Stop_retry(r, code, why) ==
    IF code = 0
      THEN /\ pc' = [pc EXCEPT ![r] = "done"]
           /\ exit_code' = [exit_code EXCEPT ![r] = code]
           /\ outcome' = [outcome EXCEPT ![r] = why]
      ELSE UNCHANGED <<pc, exit_code, outcome>>

\* sys.exit(code), or an exception that ends the process: the run is over
Stop(r, code, why) ==
    /\ pc' = [pc EXCEPT ![r] = "done"]
    /\ exit_code' = [exit_code EXCEPT ![r] = code]
    /\ outcome' = [outcome EXCEPT ![r] = why]

Goto(r, label) ==
    /\ pc' = [pc EXCEPT ![r] = label]
    /\ UNCHANGED <<exit_code, outcome>>

Clean(res) == res.rc = 0 /\ res.err = <<>>

\* run(commands): the command is recorded; bad is TRUE when it ended with an
\* unexpected nonzero exit code or wrote to stderr
run(r, cmd, a, b, bad) ==
    /\ calls' = [calls EXCEPT ![r] = Append(@, [cmd |-> cmd, a |-> a, b |-> b])]
    /\ failed' = [failed EXCEPT ![r] = @ \/ bad]

Called(r, cmd) == {i \in 1..Len(calls[r]) : calls[r][i].cmd = cmd}

GitCommands == {"git checkout", "git add", "git commit", "git push"}
GitCalls(r) == {i \in 1..Len(calls[r]) : calls[r][i].cmd \in GitCommands}

PrsOf(list, branch) == SelectSeq(list, LAMBDA p : p.head = branch)
IssuesOf(list, title) == SelectSeq(list, LAMBDA i : i.title = title)

\* ------------------------------------------------------- decisions of the code
\* mutant of UpToDate: the comparison never succeeds
UpToDate_never(new_cdn) == FALSE

\* main: new_cdn == DEFAULT_PLOTLY
UpToDate(new_cdn) == new_cdn = DEFAULT_PLOTLY

\* mutant of verify_url: every status below 400 is accepted
verify_url_ok(status) == status < 400

\* verify_url: response.status == 200
verify_url(status) == status = 200

\* create_pr: branch_exists = (brc_eval == 0)
branch_exists(brc_eval) == brc_eval = 0

\* mutant of unexpected_error: every failed lookup is read as "no such branch"
unexpected_error_never(msg) == FALSE

\* mutant of unexpected_error: an empty stderr is read as "no such branch"
unexpected_error_nonempty(msg) == msg # <<>> /\ ~Contains(msg, "HTTP 404")

\* create_pr: "HTTP 404" not in msg
unexpected_error(msg) == ~Contains(msg, "HTTP 404")

\* mutant of pr_listed: only an open PR counts
pr_listed_open(out) == \E i \in 1..Len(out) : out[i].state = "OPEN"

\* create_pr: if pr.decode()
pr_listed(out) == out # <<>>

\* mutant of update_failed: the result of changelog.update is not looked at
update_failed_never(file_updated) == FALSE

\* create_pr: if not file_updated
update_failed(file_updated) == ~file_updated

\* mutant of truthy: the exit code is not looked at
truthy_never(eval) == FALSE

\* create_pr: if push_eval / if pr_eval
truthy(eval) == eval # 0

\* mutant of any_open: only the first issue of the list is looked at
any_open_first(found) == found[1].state = "OPEN"

\* verify_issue: some issue of the list has state OPEN
any_open(found) == \E i \in 1..Len(found) : found[i].state = "OPEN"

\* create_issue: if issue_err
issue_failed(issue_err) == issue_err # <<>>

\* ------------------------------------------------------------------ actions
\* get_latest_version: gh api repos/plotly/plotly.js/tags --paginate
get_latest_version(r) ==
    /\ pc[r] = "start"
    /\ \E res \in Results, tags \in TagLists :
         LET names == [i \in 1..Len(tags) |-> ltrimstr(tags[i])]
         IN  /\ run(r, "gh api tags", <<>>, <<>>, ~Clean(res))
             /\ IF res.rc # 0
                  THEN \* empty stdout: json.loads raises
                       Stop(r, 1, "crash") /\ UNCHANGED latest_version
                ELSE IF \E i \in 1..Len(names) : ~CanParse(names[i])
                  THEN \* VersionInfo.parse raises ValueError
                       Stop(r, 1, "crash") /\ UNCHANGED latest_version
                ELSE IF res.err # <<>>
                  THEN Stop(r, 1, "tags_failed") /\ UNCHANGED latest_version
                ELSE IF tags = <<>>
                  THEN \* max() of an empty list raises ValueError
                       Stop(r, 1, "crash") /\ UNCHANGED latest_version
                ELSE /\ latest_version' = [latest_version EXCEPT ![r] = latest_of(tags)]
                     /\ Goto(r, "compare")
    /\ UNCHANGED <<local, seen, created, tracker, resolver>>

\* main: build new_cdn and compare it with the embedded constant
main_compare(r) ==
    /\ pc[r] = "compare"
    /\ IF UpToDate(NewCdn(latest_version[r]))
         THEN Stop(r, 0, "up_to_date")
         ELSE Goto(r, "verify_url")
    /\ UNCHANGED <<latest_version, local, calls, failed, seen, created, tracker, resolver>>

\* main: HEAD request, then the rewrite of the source file or the issue path
main_verify_url(r) ==
    /\ pc[r] = "verify_url"
    /\ \E status \in Statuses, raised \in BOOLEAN :
         IF raised
           THEN \* aiohttp raises on a connection error
                Stop(r, 1, "crash") /\ UNCHANGED <<file, file_writes, seen>>
         ELSE IF verify_url(status)
           THEN /\ seen' = [seen EXCEPT ![r].status = status]
                /\ file' = [file EXCEPT
                              ![r] = replace(@, DEFAULT_PLOTLY, NewCdn(latest_version[r]), 1)]
                /\ file_writes' = [file_writes EXCEPT ![r] = @ + 1]
                /\ Goto(r, "branch_lookup")
           ELSE /\ seen' = [seen EXCEPT ![r].status = status]
                /\ Goto(r, "verify_issue")
                /\ UNCHANGED <<file, file_writes>>
    /\ UNCHANGED <<latest_version, changelog, git, calls, failed, created, tracker, resolver>>

\* what gh api repos/REPO/branches/<branch> can answer
BranchResults(branch) ==
    IF branch \in branches THEN Results ELSE {NotFound} \cup {res \in Results : res.rc # 0}

\* create_pr: the branch lookup
create_pr_branch(r) ==
    /\ pc[r] = "branch_lookup"
    /\ LET branch == Branch(latest_version[r])
       IN  \E res \in BranchResults(branch) :
                /\ seen' = [seen EXCEPT
                              ![r].branch = IF branch \in branches THEN "present" ELSE "absent",
                              ![r].lookup = res]
                /\ run(r, "gh api branch", branch, <<>>, ~Clean(res) /\ res # NotFound)
                /\ IF branch_exists(res.rc)
                     THEN Stop(r, 1, "branch_exists")
                   ELSE IF unexpected_error(res.err)
                     THEN Stop(r, 1, "branch_error")
                   ELSE Goto(r, "pr_list")
    /\ UNCHANGED <<latest_version, local, created, tracker, resolver>>

\* create_pr: gh pr list --state all, then changelog.update
create_pr_list(r) ==
    /\ pc[r] = "pr_list"
    /\ LET branch == Branch(latest_version[r])
       IN  \E res \in Results, file_updated \in BOOLEAN :
                LET pr == IF res.rc = 0 THEN PrsOf(prs, branch) ELSE <<>>
                    here == [seen[r] EXCEPT
                               !.pr = IF PrsOf(prs, branch) # <<>> THEN "present" ELSE "absent",
                               !.listed = [i \in 1..Len(pr) |-> pr[i].state]]
                IN  /\ run(r, "gh pr list", branch, <<>>, ~Clean(res))
                    /\ IF pr_listed(pr)
                         THEN /\ Stop(r, 1, "pr_exists")
                              /\ seen' = [seen EXCEPT ![r] = here]
                              /\ UNCHANGED changelog
                       ELSE \* changelog.update(latest_version, title, GITHUB_WORKSPACE)
                            /\ changelog' = [changelog EXCEPT ![r] = file_updated]
                            /\ seen' = [seen EXCEPT
                                 ![r] = [here EXCEPT
                                           !.update = IF file_updated THEN "ok" ELSE "failed"]]
                            /\ IF update_failed(file_updated)
                                 THEN Stop(r, 1, "changelog_failed")
                                 ELSE Goto(r, "git_checkout")
    /\ UNCHANGED <<latest_version, file, file_writes, git, created, tracker, resolver>>

\* create_pr: git checkout -b <branch>; the result is not looked at
git_checkout(r) ==
    /\ pc[r] = "git_checkout"
    /\ \E res \in Results :
         /\ run(r, "git checkout", Branch(latest_version[r]), <<>>, ~Clean(res))
         /\ git' = [git EXCEPT ![r].branch = (res.rc = 0)]
    /\ Goto(r, "git_add")
    /\ UNCHANGED <<latest_version, file, file_writes, changelog, seen, created, tracker, resolver>>

\* create_pr: git add . ; the result is not looked at
git_add(r) ==
    /\ pc[r] = "git_add"
    /\ \E res \in Results :
         run(r, "git add", <<>>, <<>>, ~Clean(res))
    /\ Goto(r, "git_commit")
    /\ UNCHANGED <<latest_version, local, seen, created, tracker, resolver>>

\* create_pr: git commit -m "chore: <title>"; the result is not looked at
git_commit(r) ==
    /\ pc[r] = "git_commit"
    /\ \E res \in Results :
         /\ run(r, "git commit", <<"chore: ">> \o PrTitle(latest_version[r]), <<>>, ~Clean(res))
         /\ git' = [git EXCEPT ![r].committed = (res.rc = 0)]
    /\ Goto(r, "git_push")
    /\ UNCHANGED <<latest_version, file, file_writes, changelog, seen, created, tracker, resolver>>

\* create_pr: git push -u origin <branch>
git_push(r) ==
    /\ pc[r] = "git_push"
    /\ LET branch == Branch(latest_version[r])
       IN  \E res \in Results :
             /\ run(r, "git push", branch, <<>>, ~Clean(res))
             /\ git' = [git EXCEPT ![r].pushed = (res.rc = 0)]
             /\ branches' = IF res.rc = 0 THEN branches \cup {branch} ELSE branches
             /\ IF truthy(res.rc)
                  THEN Stop(r, 1, "push_failed")
                  ELSE Goto(r, "pr_create")
    /\ UNCHANGED <<latest_version, file, file_writes, changelog, seen, created, prs, issues,
                   resolver>>

\* create_pr: gh pr create
pr_create(r) ==
    /\ pc[r] = "pr_create"
    /\ LET branch == Branch(latest_version[r])
       IN  \E res \in Results :
             /\ run(r, "gh pr create", PrTitle(latest_version[r]),
                    PrBody(latest_version[r]), ~Clean(res))
             /\ prs' = IF res.rc = 0
                         THEN Append(prs, [head |-> branch, state |-> "OPEN"])
                         ELSE prs
             /\ IF truthy(res.rc)
                  THEN Stop(r, 1, "pr_create_failed")
                  ELSE Stop(r, 0, "pr_created")
    /\ UNCHANGED <<latest_version, local, seen, created, branches, issues, resolver>>

\* mutant of Verdict: a list of closed issues is treated like an empty one
Verdict_reopen(found) ==
    IF found = <<>> THEN "none" ELSE IF any_open(found) THEN "open" ELSE "none"

\* the answer of verify_issue for the list the query printed
Verdict(found) ==
    IF found = <<>> THEN "none" ELSE IF any_open(found) THEN "open" ELSE "closed"

\* verify_issue: gh issue list --search <title> --state all
verify_issue(r) ==
    /\ pc[r] = "verify_issue"
    /\ LET title == IssueTitle(latest_version[r])
           found == IssuesOf(issues, title)
       IN  \E res \in Results :
             /\ run(r, "gh issue list", title, <<>>, ~Clean(res))
             /\ IF res.rc # 0
                  THEN \* empty stdout: json.loads raises
                       Stop(r, 1, "crash") /\ UNCHANGED seen
                ELSE /\ seen' = [seen EXCEPT
                                  ![r].issue = [i \in 1..Len(found) |-> found[i].state]]
                     /\ IF Verdict(found) = "open" THEN Stop(r, 1, "issue_open")
                        ELSE IF Verdict(found) = "closed" THEN Stop(r, 0, "issue_closed")
                        ELSE Goto(r, "create_issue")
    /\ UNCHANGED <<latest_version, local, created, tracker, resolver>>

\* mutant of gh_issue_create: no second open issue with the same title is filed
gh_issue_create_once(list, title) ==
    IF OpenCount(list, title) > 0 THEN list
    ELSE Append(list, [title |-> title, state |-> "OPEN"])

\* gh issue create -t <title>: the tracker files a new open issue, whatever it holds
gh_issue_create(list, title) == Append(list, [title |-> title, state |-> "OPEN"])

\* create_issue: gh issue create
create_issue(r) ==
    /\ pc[r] = "create_issue"
    /\ LET title == IssueTitle(latest_version[r])
           body == IssueBody(NewCdn(latest_version[r]))
       IN  \E res \in Results :
             /\ run(r, "gh issue create", title, body, ~Clean(res))
             /\ issues' = IF res.rc = 0 THEN gh_issue_create(issues, title) ELSE issues
             /\ created' = [created EXCEPT ![r] = (res.rc = 0)]
             /\ IF issue_failed(res.err)
                  THEN Stop(r, 1, "issue_create_failed")
                  ELSE Stop(r, 0, "issue_created")
    /\ UNCHANGED <<latest_version, local, seen, branches, prs, resolver>>

\* asyncio.run(main()): the scheduler starts the script again on a fresh checkout
Restart(r) ==
    /\ pc[r] = "done"
    /\ pc' = [pc EXCEPT ![r] = "start"]
    /\ exit_code' = [exit_code EXCEPT ![r] = -1]
    /\ outcome' = [outcome EXCEPT ![r] = ""]
    /\ latest_version' = [latest_version EXCEPT ![r] = <<>>]
    /\ file' = [file EXCEPT ![r] = FILE_TEXT]
    /\ file_writes' = [file_writes EXCEPT ![r] = 0]
    /\ changelog' = [changelog EXCEPT ![r] = FALSE]
    /\ git' = [git EXCEPT ![r] = NoGit]
    /\ calls' = [calls EXCEPT ![r] = <<>>]
    /\ failed' = [failed EXCEPT ![r] = FALSE]
    /\ seen' = [seen EXCEPT ![r] = NoSeen]
    /\ created' = [created EXCEPT ![r] = FALSE]
    /\ UNCHANGED <<tracker, resolver>>

Step(r) ==
    \/ get_latest_version(r)
    \/ main_compare(r)
    \/ main_verify_url(r)
    \/ create_pr_branch(r)
    \/ create_pr_list(r)
    \/ git_checkout(r)
    \/ git_add(r)
    \/ git_commit(r)
    \/ git_push(r)
    \/ pr_create(r)
    \/ verify_issue(r)
    \/ create_issue(r)

\* the invocations overlap in time: any interleaving of their commands
Next == \E r \in Runs : Step(r)

Spec == Init /\ [][Next]_vars

\* one invocation after the other, any number of them: a run starts only while no
\* other run is under way, and a finished run is started again on a fresh checkout
Idle(r) == pc[r] = "start"

start_alone(r) == (\A q \in Runs \ {r} : Idle(q)) /\ get_latest_version(r)

NextSeq ==
    \E r \in Runs :
        \/ start_alone(r)
        \/ main_compare(r)
        \/ main_verify_url(r)
        \/ create_pr_branch(r)
        \/ create_pr_list(r)
        \/ git_checkout(r)
        \/ git_add(r)
        \/ git_commit(r)
        \/ git_push(r)
        \/ pr_create(r)
        \/ verify_issue(r)
        \/ create_issue(r)
        \/ Restart(r)

SpecSeq == Init /\ [][NextSeq]_vars

\* earlier PRs of the bot that were closed or merged, their head branch deleted
ClosedPrs == {[head |-> Branch(v), state |-> st] : v \in NewVersions, st \in {"CLOSED", "MERGED"}}

InitClosed ==
    /\ Runs0
    /\ branches = {}
    /\ prs \in {<<>>} \cup {<<p>> : p \in ClosedPrs}
    /\ issues = <<>>
    /\ tag_list = <<>>
    /\ resolved = <<>>

SpecClosed == InitClosed /\ [][Next]_vars

\* every awaited command, request and update returns: a run that can take its
\* next step takes it
SpecLive == Init /\ [][Next]_vars /\ \A r \in Runs : WF_vars(Step(r))

\* ------------------------------------------------- the resolver on its own
\* valid semantic versions, with and without the leading "v"
ValidTagNames ==
    { <<"v", "1", ".", "2", ".", "0">>,
      <<"1", ".", "9", ".", "9">>,
      <<"v", "1", ".", "10", ".", "0">>,
      <<"v", "1", ".", "10", ".", "0", "-", "rc1">>,
      <<"1", ".", "10", ".", "0", "-", "rc2">>,
      <<"v", "0", ".", "10", ".", "10">> }

ValidTagLists == SeqsUpTo(ValidTagNames, MaxVerTags) \ {<<>>}

InitVer ==
    /\ Runs0
    /\ branches = {}
    /\ prs = <<>>
    /\ issues = <<>>
    /\ tag_list \in ValidTagLists
    /\ resolved = <<>>

\* get_latest_version applied to the tag list
resolve ==
    /\ resolved = <<>>
    /\ resolved' = latest_of(tag_list)
    /\ UNCHANGED <<pc, exit_code, outcome, latest_version, local, calls, failed, seen,
                   created, tracker, tag_list>>

SpecVer == InitVer /\ [][resolve]_vars

\* ------------------------------------------------------------- properties
Count(r, cmd) == Cardinality(Called(r, cmd))

Ended(r) == pc[r] = "done"

\* text is before with its first occurrence of old, and only that one, replaced by new
FirstReplaced(text, before, old, new) ==
    \E i \in 1..Len(before) :
        /\ before[i] = old
        /\ \A j \in 1..(i - 1) : before[j] # old
        /\ text = [before EXCEPT ![i] = new]

HasSub(s, sub) == \E i \in 0..(Len(s) - Len(sub)) : SubSeq(s, i + 1, i + Len(sub)) = sub

\* the run has not touched the changelog or the local repository and has made no
\* git call and no call that creates something on the tracker
NoGitNoCreate(r) ==
    /\ ~changelog[r]
    /\ git[r] = NoGit
    /\ GitCalls(r) = {}
    /\ Count(r, "gh pr create") = 0
    /\ Count(r, "gh issue create") = 0

NoWrites(r) == file[r] = FILE_TEXT /\ file_writes[r] = 0 /\ NoGitNoCreate(r)

\* C1: a run whose new CDN URL equals DEFAULT_PLOTLY has ended with exit code 0
\* without rewriting the source file or the changelog and without any git,
\* PR-creation or issue-creation call.
C1_UpToDateNoWrites ==
    \A r \in Runs :
        (pc[r] \notin {"start", "compare"} /\ NewCdn(latest_version[r]) = DEFAULT_PLOTLY)
            => (Ended(r) /\ exit_code[r] = 0 /\ NoWrites(r))

C1_Witness ==
    \E r \in Runs : Ended(r) /\ outcome[r] = "up_to_date" /\ latest_version[r] # <<>>

\* C2 as stated: every ended run that took the PR path while neither the branch
\* nor a PR for the version existed has created the branch, edited the file once
\* (first occurrence) and made exactly one PR-creation call.
C2_Original ==
    \A r \in Runs :
        (Ended(r) /\ seen[r].branch = "absent" /\ seen[r].pr = "absent")
            => /\ git[r].branch
               /\ file_writes[r] = 1
               /\ FirstReplaced(file[r], FILE_TEXT, DEFAULT_PLOTLY, NewCdn(latest_version[r]))
               /\ Count(r, "gh pr create") = 1

\* C2 amended: when, in addition, the branch lookup answered HTTP 404, the
\* changelog update succeeded and git push returned 0, the run has made one
\* git checkout -b call for the branch, the branch is on the remote, the file
\* was edited once (first occurrence) and exactly one PR-creation call was made.
C2_PrPath ==
    \A r \in Runs :
        (/\ Ended(r) /\ seen[r].branch = "absent" /\ seen[r].pr = "absent"
         /\ changelog[r] /\ outcome[r] # "push_failed")
            => /\ Count(r, "git checkout") = 1
               /\ \A i \in Called(r, "git checkout") :
                    calls[r][i].a = <<"bot/update-cdn-">> \o latest_version[r]
               /\ (<<"bot/update-cdn-">> \o latest_version[r]) \in branches
               /\ file_writes[r] = 1
               /\ FirstReplaced(file[r], FILE_TEXT, DEFAULT_PLOTLY, NewCdn(latest_version[r]))
               /\ Count(r, "gh pr create") = 1

C2_Witness ==
    \E r \in Runs :
        /\ Ended(r) /\ outcome[r] = "pr_created"
        /\ seen[r].branch = "absent" /\ seen[r].pr = "absent"
        /\ file[r] # FILE_TEXT

\* C3: a run that found the branch or a PR for its version on the tracker has
\* ended with exit code 1 without any git call and without a PR-creation call.
C3_NoCallsWhenBranchOrPrExists ==
    \A r \in Runs :
        (seen[r].branch = "present" \/ seen[r].pr = "present")
            => (Ended(r) /\ exit_code[r] = 1 /\ GitCalls(r) = {} /\ Count(r, "gh pr create") = 0)

\* C4: a run whose issue query returned at least one OPEN issue has ended with
\* exit code 1 without an issue-creation call.
C4_OpenIssueStops ==
    \A r \in Runs :
        (\E i \in 1..Len(seen[r].issue) : seen[r].issue[i] = "OPEN")
            => (Ended(r) /\ exit_code[r] = 1 /\ Count(r, "gh issue create") = 0)

C4_Witness ==
    \E r \in Runs :
        /\ Ended(r) /\ outcome[r] = "issue_open"
        /\ Len(seen[r].issue) = 2 /\ seen[r].issue[1] = "CLOSED" /\ seen[r].issue[2] = "OPEN"

\* C5: a run whose issue query returned a non-empty list of CLOSED issues only
\* has ended with exit code 0 without an issue-creation call.
C5_ClosedIssueStops ==
    \A r \in Runs :
        (/\ seen[r].issue # <<>>
         /\ \A i \in 1..Len(seen[r].issue) : seen[r].issue[i] = "CLOSED")
            => (Ended(r) /\ exit_code[r] = 0 /\ Count(r, "gh issue create") = 0)

C5_Witness ==
    \E r \in Runs :
        /\ Ended(r) /\ outcome[r] = "issue_closed"
        /\ seen[r].issue = <<"CLOSED", "CLOSED">>

\* C6: a run whose issue query returned no issue makes exactly one
\* issue-creation call, titled 'CDN not reachable for Plotly.js v<version>' and
\* with a body that contains the unreachable URL.
C6_OneIssueCreated ==
    \A r \in Runs :
        seen[r].issue = <<>>
            => /\ pc[r] \in {"create_issue", "done"}
               /\ Count(r, "gh issue create") = (IF Ended(r) THEN 1 ELSE 0)
               /\ \A i \in Called(r, "gh issue create") :
                    /\ calls[r][i].a = <<"CDN not reachable for Plotly.js v">> \o latest_version[r]
                    /\ HasSub(calls[r][i].b, NewCdn(latest_version[r]))

C6_Witness ==
    \E r \in Runs :
        Ended(r) /\ seen[r].issue = <<>> /\ outcome[r] = "issue_created" /\ created[r]

\* C7: a run one of whose commands ended with an unexpected nonzero exit code
\* or wrote to stderr has stopped at that command with a nonzero exit code.
C7_FailureIsFatal ==
    \A r \in Runs : failed[r] => (Ended(r) /\ exit_code[r] # 0)

\* C8: with one run after the other, the tracker never holds more than one PR
\* for a version's branch nor more than one open issue with a version's title.
C8_AtMostOne ==
    \A v \in NewVersions :
        /\ Len(PrsOf(prs, Branch(v))) <= 1
        /\ OpenCount(issues, IssueTitle(v)) <= 1

C8_Witness ==
    \E r \in Runs :
        /\ Ended(r) /\ outcome[r] = "branch_exists"
        /\ Len(PrsOf(prs, Branch(latest_version[r]))) = 1
        /\ Len(issues) > MaxInitIssues
        /\ \E v \in NewVersions :
             /\ OpenCount(issues, IssueTitle(v)) = 1
             /\ Len(IssuesOf(issues, IssueTitle(v))) = 1

\* C9: two overlapping runs for the same version that both found no issue and
\* whose creation calls both succeeded leave two open issues with the same title.
C9_BothCreate ==
    \A r1, r2 \in Runs :
        (/\ r1 # r2 /\ latest_version[r1] = latest_version[r2]
         /\ seen[r1].issue = <<>> /\ seen[r2].issue = <<>>
         /\ created[r1] /\ created[r2])
            => OpenCount(issues, IssueTitle(latest_version[r1])) = 2

C9_Witness ==
    \E r1, r2 \in Runs :
        /\ r1 # r2 /\ latest_version[r1] = latest_version[r2]
        /\ seen[r1].issue = <<>> /\ seen[r2].issue = <<>>
        /\ created[r1] /\ created[r2]
        /\ outcome[r1] = "issue_created" /\ outcome[r2] = "issue_created"
        /\ OpenCount(issues, IssueTitle(latest_version[r1])) = 2

Duplicate == {"branch_exists", "pr_exists", "issue_open"}

\* C10 as stated: a run that stopped on a detected duplicate exits 1 and has
\* changed nothing, the local source file included.
C10_Original ==
    \A r \in Runs : outcome[r] \in Duplicate => (exit_code[r] = 1 /\ NoWrites(r))

\* C10 amended: a run that stopped on a detected duplicate exits 1 and has not
\* touched the changelog, the git state or the tracker; the source file is
\* unchanged when the duplicate is an open issue and already rewritten (first
\* occurrence of the old URL) when it is an existing branch or PR.
C10_DuplicateStop ==
    \A r \in Runs :
        outcome[r] \in Duplicate
            => /\ exit_code[r] = 1
               /\ NoGitNoCreate(r)
               /\ outcome[r] = "issue_open" => (file[r] = FILE_TEXT /\ file_writes[r] = 0)
               /\ outcome[r] # "issue_open" =>
                    /\ file_writes[r] = 1
                    /\ FirstReplaced(file[r], FILE_TEXT, DEFAULT_PLOTLY,
                                     NewCdn(latest_version[r]))

C10_Witness ==
    \E r \in Runs : Ended(r) /\ outcome[r] = "pr_exists" /\ file[r] # FILE_TEXT

Success == {"up_to_date", "pr_created", "issue_created", "issue_closed"}

\* C11: a run that exits 0 ended in a success or no-action outcome and none of
\* its steps failed: a created PR rests on a git checkout and a git commit that
\* returned 0, a created issue on a gh issue create that returned 0.
C11_ExitZeroOnlyOnSuccess ==
    \A r \in Runs :
        (Ended(r) /\ exit_code[r] = 0)
            => /\ outcome[r] \in Success
               /\ outcome[r] = "pr_created" => (git[r].branch /\ git[r].committed)
               /\ outcome[r] = "issue_created" => created[r]

\* semantic-version precedence read off the tag names themselves
Strip(t) == IF t[1] = "v" THEN Tail(t) ELSE t
Core(t) == <<ParseInt(Strip(t)[1]), ParseInt(Strip(t)[3]), ParseInt(Strip(t)[5])>>
Pre(t) == IF Len(Strip(t)) = 7 THEN Strip(t)[7] ELSE ""

CoreBelow(a, b) ==
    \/ a[1] < b[1]
    \/ a[1] = b[1] /\ a[2] < b[2]
    \/ a[1] = b[1] /\ a[2] = b[2] /\ a[3] < b[3]

\* tag a has lower precedence than tag b
Below(a, b) ==
    \/ CoreBelow(Core(a), Core(b))
    \/ /\ Core(a) = Core(b)
       /\ \/ Pre(a) # "" /\ Pre(b) = ""
          \/ Pre(a) = "rc1" /\ Pre(b) = "rc2"

\* C12: for a non-empty list of valid tags the resolver returns the string form
\* of a tag that no tag of the list exceeds in semantic-version precedence.
C12_SemverMax ==
    resolved # <<>>
        => \E i \in 1..Len(tag_list) :
             /\ resolved = Strip(tag_list[i])
             /\ \A j \in 1..Len(tag_list) : ~Below(tag_list[i], tag_list[j])

\* 1.10.0 wins over 1.9.9, which is the larger string, and over its own pre-release
C12_Witness ==
    /\ resolved = <<"1", ".", "10", ".", "0">>
    /\ \E i, j, k \in 1..Len(tag_list) :
         /\ tag_list[i] = <<"1", ".", "9", ".", "9">>
         /\ tag_list[j] = <<"v", "1", ".", "10", ".", "0">>
         /\ tag_list[k] = <<"v", "1", ".", "10", ".", "0", "-", "rc1">>

PrCommands == {"gh api branch", "gh pr list", "gh pr create"} \cup GitCommands
PrLabels == {"branch_lookup", "pr_list", "git_checkout", "git_add", "git_commit", "git_push",
             "pr_create"}
IssueCommands == {"gh issue list", "gh issue create"}
IssueLabels == {"verify_issue", "create_issue"}

\* the run rewrote the source file, or is in create_pr, or has made one of its calls
OnPrPath(r) ==
    \/ file_writes[r] > 0
    \/ pc[r] \in PrLabels
    \/ \E i \in 1..Len(calls[r]) : calls[r][i].cmd \in PrCommands

\* the run is in verify_issue or create_issue, or has made one of their calls
OnIssuePath(r) ==
    \/ pc[r] \in IssueLabels
    \/ \E i \in 1..Len(calls[r]) : calls[r][i].cmd \in IssueCommands

\* C13: a run whose new URL differs from the constant and whose HEAD request was
\* answered rewrites the file and enters create_pr iff the status was exactly 200,
\* and enters verify_issue for every other status; no run is on both paths, and
\* a run makes at most one PR-creation or issue-creation call in total.
C13_PathByStatus ==
    \A r \in Runs :
        /\ (seen[r].status # 0) => NewCdn(latest_version[r]) # DEFAULT_PLOTLY
        /\ (seen[r].status = 200) =>
               /\ file_writes[r] = 1
               /\ FirstReplaced(file[r], FILE_TEXT, DEFAULT_PLOTLY, NewCdn(latest_version[r]))
               /\ (pc[r] = "branch_lookup" \/ Count(r, "gh api branch") = 1)
               /\ ~OnIssuePath(r)
        /\ (seen[r].status \notin {0, 200}) =>
               /\ (pc[r] = "verify_issue" \/ Count(r, "gh issue list") = 1)
               /\ ~OnPrPath(r)
        /\ OnPrPath(r) => seen[r].status = 200
        /\ OnIssuePath(r) => seen[r].status \notin {0, 200}
        /\ Count(r, "gh pr create") + Count(r, "gh issue create") <= 1

\* one run took the PR path on status 200 and made the PR-creation call, the
\* other took the issue path on another status and made the issue-creation call
C13_Witness ==
    \E r, q \in Runs :
        /\ seen[r].status = 200 /\ Count(r, "gh pr create") = 1 /\ Count(r, "gh issue create") = 0
        /\ seen[q].status \in {301, 404} /\ Count(q, "gh issue create") = 1
        /\ Count(q, "gh pr create") = 0

\* the position of the first call of cmd among the calls of the run, 0 if none
FirstCall(r, cmd) ==
    IF Called(r, cmd) = {} THEN 0
    ELSE CHOOSE i \in Called(r, cmd) : \A j \in Called(r, cmd) : i <= j

\* what holds of every run at every moment
C14_State ==
    \A r \in Runs :
        /\ (pc[r] = "pr_create" \/ Count(r, "gh pr create") > 0) =>
               /\ git[r].pushed
               /\ Count(r, "git push") = 1
        /\ Count(r, "gh pr create") > 0 => FirstCall(r, "git push") < FirstCall(r, "gh pr create")
        /\ (Count(r, "git push") = 1 /\ ~git[r].pushed) =>
               /\ Ended(r)
               /\ outcome[r] = "push_failed"
        /\ outcome[r] = "push_failed" =>
               /\ exit_code[r] = 1
               /\ ~git[r].pushed
               /\ Count(r, "gh pr create") = 0
               /\ FirstReplaced(file[r], FILE_TEXT, DEFAULT_PLOTLY, NewCdn(latest_version[r]))
               /\ changelog[r]
               /\ Count(r, "git checkout") = 1
               /\ Count(r, "git commit") = 1

\* the step that ends a run at git push leaves its file, changelog, local branch
\* and local commit as they were
C14_NoUndo ==
    \A r \in Runs :
        (pc[r] = "git_push" /\ pc'[r] = "done") =>
            /\ file'[r] = file[r]
            /\ changelog'[r] = changelog[r]
            /\ git'[r].branch = git[r].branch
            /\ git'[r].committed = git[r].committed

\* C14: the PR-creation call is made only after git push returned 0; a run whose
\* git push returned nonzero exits 1 without a PR-creation call, and the rewritten
\* file, the updated changelog and the local branch and commit are left in place.
C14_PushGatesPr == []C14_State /\ [][C14_NoUndo]_vars

\* one run stopped at a failed push with file, changelog, branch and commit in
\* place, the other made the PR-creation call after a push that returned 0
C14_Witness ==
    \E r, q \in Runs :
        /\ outcome[r] = "push_failed"
        /\ file[r] # FILE_TEXT /\ changelog[r] /\ git[r].branch /\ git[r].committed
        /\ Count(q, "gh pr create") = 1 /\ git[q].pushed

\* C15: a run whose changelog update returned a falsy value has ended with exit
\* code 1 and has made no git checkout, add, commit or push call and no
\* PR-creation call.
C15_ChangelogFailureStops ==
    \A r \in Runs :
        seen[r].update = "failed" =>
            /\ Ended(r)
            /\ exit_code[r] = 1
            /\ GitCalls(r) = {}
            /\ git[r] = NoGit
            /\ Count(r, "gh pr create") = 0

\* a run reached changelog.update past both duplicate checks and the update failed
C15_Witness ==
    \E r \in Runs :
        /\ seen[r].update = "failed"
        /\ Count(r, "gh pr list") = 1
        /\ outcome[r] = "changelog_failed"

\* the run went on past the branch check of create_pr
PastBranchCheck(r) == pc[r] \in (PrLabels \ {"branch_lookup"}) \/ Count(r, "gh pr list") > 0

\* C16: the branch lookup is read three ways: exit code 0 is "branch exists" and
\* the run exits 1; a nonzero exit code with 'HTTP 404' in stderr is "branch
\* absent" and the run goes on; a nonzero exit code with any other stderr, the
\* empty one included, is an unexpected error and the run exits 1. A run is past
\* the branch check only in the 'HTTP 404' case.
C16_BranchLookupThreeWays ==
    \A r \in Runs :
        LET res == seen[r].lookup
        IN  /\ (res # NoRes /\ res.rc = 0) =>
                   /\ Ended(r) /\ exit_code[r] = 1 /\ outcome[r] = "branch_exists"
                   /\ ~PastBranchCheck(r)
            /\ (res # NoRes /\ res.rc # 0 /\ Contains(res.err, "HTTP 404")) =>
                   PastBranchCheck(r)
            /\ (res # NoRes /\ res.rc # 0 /\ ~Contains(res.err, "HTTP 404")) =>
                   /\ Ended(r) /\ exit_code[r] = 1 /\ outcome[r] = "branch_error"
                   /\ ~PastBranchCheck(r)
            /\ PastBranchCheck(r) =>
                   (res # NoRes /\ res.rc # 0 /\ Contains(res.err, "HTTP 404"))

\* one run's lookup failed with an empty stderr and the run stopped, the other's
\* answered HTTP 404 and the run went on to the PR query
C16_Witness ==
    \E r, q \in Runs :
        /\ seen[r].lookup.rc = 1 /\ seen[r].lookup.err = <<>> /\ outcome[r] = "branch_error"
        /\ seen[q].lookup = NotFound /\ Count(q, "gh pr list") = 1

\* every PR the query printed is closed or merged
OnlyClosedListed(r) ==
    /\ seen[r].listed \notin {<<"?">>, <<>>}
    /\ \A i \in 1..Len(seen[r].listed) : seen[r].listed[i] \in {"CLOSED", "MERGED"}

\* C17 as stated: a run that found no branch and whose PR query printed only
\* closed or merged PRs for the head branch did not abort at the PR check and
\* went on to the changelog update.
C17_Original ==
    \A r \in Runs :
        (seen[r].branch = "absent" /\ OnlyClosedListed(r)) =>
            (outcome[r] # "pr_exists" /\ seen[r].update # "?")

\* C17 amended: a run whose PR query printed a PR for the head branch, in
\* whatever state, has ended with exit code 1 at the PR check: no changelog
\* update, no git call, no PR-creation call; and a run ends at the PR check only
\* when the query printed a PR.
C17_AnyStateAborts ==
    \A r \in Runs :
        /\ seen[r].listed \notin {<<"?">>, <<>>} =>
               /\ Ended(r) /\ exit_code[r] = 1 /\ outcome[r] = "pr_exists"
               /\ seen[r].update = "?"
               /\ NoGitNoCreate(r)
        /\ outcome[r] = "pr_exists" => seen[r].listed \notin {<<"?">>, <<>>}

\* a run found no branch, its PR query printed one merged or closed PR, and the
\* run stopped at the PR check
C17_Witness ==
    \E r \in Runs :
        /\ seen[r].branch = "absent"
        /\ seen[r].lookup = NotFound
        /\ OnlyClosedListed(r)
        /\ outcome[r] = "pr_exists"

\* the two passes through main, in program order
PrFlow == <<"start", "compare", "verify_url", "branch_lookup", "pr_list", "git_checkout",
            "git_add", "git_commit", "git_push", "pr_create", "done">>
IssueFlow == <<"start", "compare", "verify_url", "verify_issue", "create_issue", "done">>

Before(flow, a, b) ==
    \E i, j \in 1..Len(flow) : flow[i] = a /\ flow[j] = b /\ i < j

Forward(a, b) == Before(PrFlow, a, b) \/ Before(IssueFlow, a, b)

Fatal == {"crash", "tags_failed", "branch_error", "changelog_failed", "push_failed",
          "pr_create_failed", "issue_create_failed"}
Terminal == Success \cup Duplicate \cup Fatal

\* no command is run twice in a run, and an ended run has one terminal outcome
\* and an exit code
C18_State ==
    \A r \in Runs :
        /\ \A i, j \in 1..Len(calls[r]) : calls[r][i].cmd = calls[r][j].cmd => i = j
        /\ Ended(r) <=> outcome[r] \in Terminal
        /\ Ended(r) <=> exit_code[r] \in {0, 1}
        /\ ~Ended(r) => outcome[r] = ""

\* a run only moves forward in program order, every command it runs moves it on,
\* and nothing of an ended run changes
C18_Step ==
    \A r \in Runs :
        /\ pc'[r] # pc[r] => Forward(pc[r], pc'[r])
        /\ calls'[r] # calls[r] => pc'[r] # pc[r]
        /\ Ended(r) =>
               /\ outcome'[r] = outcome[r] /\ exit_code'[r] = exit_code[r]
               /\ calls'[r] = calls[r] /\ file'[r] = file[r] /\ git'[r] = git[r]

\* C18: when every command, request and update returns, every run terminates, in
\* exactly one terminal outcome, after a single forward pass in which no step is
\* executed twice.
C18_SinglePassTerminates ==
    /\ \A r \in Runs : <>Ended(r)
    /\ []C18_State
    /\ [][C18_Step]_vars

\* both runs have ended, one after the longest pass (a PR-creation call), the
\* other on a fatal step failure
C18_Witness ==
    \E r, q \in Runs :
        /\ Ended(r) /\ Count(r, "gh pr create") = 1 /\ Len(calls[r]) = 8
        /\ Ended(q) /\ outcome[q] \in Fatal

====
